---- MODULE Spec2Model ----
(***************************************************************************)
(* Model of bohaohuang/dlm:                                                *)
(*   network_helper.py  Hook, TrainValueHook, ValidationHook,              *)
(*                      HookValueSummary, HookCurvePlotSummary             *)
(*   utils.py           my_model_fn and its two variants (shape algebra)   *)
(*   evaluate.py        compare_truth_pred, main's output_size             *)
(*                                                                         *)
(* Three specifications share the module:                                  *)
(*   Spec       the training loop driving the two hooks                    *)
(*   SpecModel  construction of the network from an architecture           *)
(*   SpecEval   compare_truth_pred on a pair of files                      *)
(***************************************************************************)
EXTENDS Integers, Sequences, FiniteSets, TLC

\* ------------------------------------------------------------------ bounds
MaxTrainSteps == 11     \* steps the training loop runs
MaxPeriod == 5          \* verb_step, valid_step range over 1..MaxPeriod
MaxBatches == 2         \* batches in the validation stream, 0..MaxBatches
MaxRows == 2            \* rows of a batch, 1..MaxRows
MaxCurveNum == 3        \* curve_num ranges over 1..MaxCurveNum
MaxFc == 2              \* dense layers, 0..MaxFc
MaxStages == 2          \* entries of tconv_dims and of tconv_filters, 0..MaxStages
MaxFileRows == 2        \* rows of a result file, 0..MaxFileRows
MaxFileCols == 2        \* columns of a result file, 1..MaxFileCols

Losses == {1, 2}        \* loss values a batch can evaluate to
FcWidths == {2, 4}      \* values of fc_filters
TconvDims == {3, 4, 6, 8}   \* values of tconv_dims
TconvFilters == {1, 2}  \* values of tconv_filters
FileValues == {0, 1}    \* entries of the truth file
Diffs == {-2, 0, 1, 2}  \* pred - truth, the same in every entry

\* the subplot grid of HookCurvePlotSummary.log: fig.add_subplot(2, 3, i+1)
SubplotRows == 2
SubplotCols == 3

VARIABLES
    \* configuration, fixed at construction
    verb_step, valid_step,      \* TrainValueHook.verb_step, ValidationHook.valid_step
    train_ws, valid_ws,         \* the two hooks' write_summary
    curve_num,                  \* ValidationHook.curve_num
    stream,                     \* the validation dataset: a sequence of batches
    hooks,                      \* the hooks in registration order
    \* the hooks' state
    tstep, vstep,               \* TrainValueHook.step, ValidationHook.step
    \* the session's data iterator
    src, pos,                   \* source it is initialised on; batches consumed
    \* the training loop
    n, cur, status, err,        \* steps completed; next hook; loop state; escaped exception
    calls,                      \* run invocations made so far, per hook
    \* what the last fired actions did
    tfired, vfired,             \* ticks on which each hook's action was executed
    reads, loss_val, loss_mean, \* batches read by the last pass; its losses; their mean
    truth, pred,                \* batch whose arrays the last pass retained (0: None)
    plotted,                    \* rows the last curve-plot event was drawn from
    sinkFailed,                 \* a summary-sink call raised during the last run
    lastRun,                    \* the hook whose run was invoked last
    \* construction of the network (evaluate.main, utils.my_model_fn*)
    model_fn,                   \* which of the three model functions builds it
    fc_filters, tconv_dims, tconv_filters,
    mpc,                        \* position in main / the model function
    output_size,                \* main's output_size (0: not computed yet)
    cnt, feature_dim, last_filter,  \* the upsampling loop's locals
    up,                         \* shape of the tensor `up`: <<width, channels>>
    strides,                    \* stride of every stage built so far
    mexc,                       \* exception that ended construction
    \* compare_truth_pred
    truth_file, pred_file,      \* the two files: sequences of rows
    epc,                        \* position in compare_truth_pred
    truth_arr, pred_arr,        \* what np.loadtxt returned
    mae, mse,                   \* the function's results
    eexc                        \* exception that ended the call

cfgVars == <<verb_step, valid_step, train_ws, valid_ws, curve_num, stream, hooks>>
passVars == <<reads, loss_val, loss_mean, truth, pred, plotted>>
hookVars == <<cfgVars, tstep, vstep, src, pos, n, cur, status, err, calls,
              tfired, vfired, passVars, sinkFailed, lastRun>>
modelVars == <<model_fn, fc_filters, tconv_dims, tconv_filters, mpc, output_size,
               cnt, feature_dim, last_filter, up, strides, mexc>>
evalVars == <<truth_file, pred_file, epc, truth_arr, pred_arr, mae, mse, eexc>>

vars == <<hookVars, modelVars, evalVars>>

\* ------------------------------------------------------------ helpers
RECURSIVE Sum(_)
Sum(s) == IF Len(s) = 0 THEN 0 ELSE Head(s) + Sum(Tail(s))

\* np.mean of a list of numbers: the exact quotient sum/len, kept as the pair
\* <<sum, len>>; the mean of an empty list is nan (numpy warns, it does not raise)
Mean(s) == IF Len(s) = 0 THEN <<"nan">> ELSE <<Sum(s), Len(s)>>

SeqsUpTo(S, k) == UNION {[1..m -> S] : m \in 0..k}

Last(s) == s[Len(s)]

Abs(x) == IF x < 0 THEN -x ELSE x

Batch == [loss : Losses, rows : 1..MaxRows]

\* the validation dataset batched: every batch is full but, possibly, the last
Streams ==
    {s \in SeqsUpTo(Batch, MaxBatches) : \A i \in 1..Len(s) - 1 : s[i].rows = MaxRows}

\* np.random.permutation(fig_num): any ordering of the row indices
Permutation(fig_num) ==
    {f \in [1..fig_num -> 1..fig_num] : \A i, j \in 1..fig_num : f[i] = f[j] => i = j}

\* ------------------------------------------------------- the two hooks
\* Hook.__init__: self.step = -1
InitialStep == -1

\* a slip of the increment: self.step =+ 1
StepAssigned(step) == 1

\* network_helper.py:52, 99  self.step += 1
StepIncrement(step) == step + 1

\* a slip of the condition: the train hook skipping step 0 as the validation hook does
TrainFiresSkipsZero(step, period) == step % period = 0 /\ step # 0

\* network_helper.py:53  if self.step % self.verb_step == 0
TrainFires(step, period) == step % period = 0

\* a slip of the condition: the validation hook firing at step 0 as the train hook does
ValidFiresAtZero(step, period) == step % period = 0

\* network_helper.py:100  if self.step % self.valid_step == 0 and self.step != 0
ValidFires(step, period) == step % period = 0 /\ step # 0

\* sess.run of a tensor fed by the iterator: consumes the next batch of the
\* current source, or raises OutOfRangeError when the source is exhausted.
\* The training source never runs out.
SessRun(source, p) ==
    IF source = "train" THEN [exc |-> "none", batch |-> 0, pos |-> p]
    ELSE IF p < Len(stream) THEN [exc |-> "none", batch |-> p + 1, pos |-> p + 1]
    ELSE [exc |-> "OutOfRangeError", batch |-> 0, pos |-> p]

\* HookValueSummary.log: sess.run(summary op), writer.add_summary, writer.flush;
\* sinkOk is whether the writer accepts the event
ValueSummaryLog(sinkOk) == IF sinkOk THEN "none" ELSE "SinkError"

\* a slip of the handler: catching the wrong exception class
CaughtStopIteration(exc) == exc = "StopIteration"

\* network_helper.py:108  except tf.errors.OutOfRangeError: pass
Caught(exc) == exc = "OutOfRangeError"

\* network_helper.py:104-109: the drain loop of one validation pass, from
\* iterator position p with the losses lv, retained batch tr and reads rd so far
RECURSIVE DrainLoop(_, _, _, _)
DrainLoop(p, lv, tr, rd) ==
    LET r == SessRun("valid", p) IN
    IF r.exc = "none"
    THEN DrainLoop(r.pos, Append(lv, stream[r.batch].loss), r.batch, Append(rd, r.batch))
    ELSE [exc |-> IF Caught(r.exc) THEN "none" ELSE r.exc,
          pos |-> r.pos, loss_val |-> lv, truth |-> tr, reads |-> rd]

\* a slip of the wiring: the hook handed the training source's init op
TrainInitOp == [src |-> "train", pos |-> 0]

\* sess.run(self.valid_init_op): the iterator is initialised on the validation
\* source, at its first batch
ValidInitOp == [src |-> "valid", pos |-> 0]

\* network_helper.py:101-109: rewind; loss_val = []; truth, pred = None, None;
\* drain
ValidationPass == DrainLoop(ValidInitOp.pos, <<>>, 0, <<>>)

\* network_helper.py:171-178: the plotting loop of HookCurvePlotSummary.log
RECURSIVE CurveLoop(_, _, _, _)
CurveLoop(i, fig_idx, cnum, drawn) ==
    IF i >= cnum THEN [exc |-> "none", plotted |-> drawn]
    ELSE IF i + 1 > SubplotRows * SubplotCols
    THEN [exc |-> "ValueError", plotted |-> drawn]      \* add_subplot(2, 3, 7)
    ELSE IF i >= Len(fig_idx)
    THEN [exc |-> "IndexError", plotted |-> drawn]      \* fig_idx[i] out of bounds
    ELSE CurveLoop(i + 1, fig_idx, cnum, Append(drawn, fig_idx[i + 1]))

\* HookCurvePlotSummary.log(truth, pred, step, writer, curve_num) on the
\* retained batch tr (0: None), with the permutation drawn and the writer's answer
CurvePlotLog(tr, fig_idx, cnum, sinkOk) ==
    IF tr = 0 THEN [exc |-> "AttributeError", plotted |-> <<>>]   \* None.shape
    ELSE LET r == CurveLoop(0, fig_idx, cnum, <<>>) IN
         IF r.exc # "none" THEN r
         ELSE [exc |-> IF sinkOk THEN "none" ELSE "SinkError", plotted |-> r.plotted]

FigNum(tr) == IF tr = 0 THEN 0 ELSE stream[tr].rows

\* TrainValueHook.run
TrainValueHook_run ==
    /\ tstep' = StepIncrement(tstep)
    /\ vstep' = vstep
    /\ UNCHANGED <<vfired, passVars, src>>
    /\ IF TrainFires(StepIncrement(tstep), verb_step)
       THEN LET r == SessRun(src, pos) IN
            /\ tfired' = tfired \cup {calls["train"]}
            /\ pos' = r.pos
            /\ IF r.exc # "none"
               THEN err' = r.exc /\ sinkFailed' = FALSE
               ELSE IF train_ws
               THEN \E sinkOk \in BOOLEAN :
                       /\ err' = ValueSummaryLog(sinkOk)
                       /\ sinkFailed' = ~sinkOk
               ELSE err' = "none" /\ sinkFailed' = FALSE
       ELSE /\ err' = "none"
            /\ sinkFailed' = FALSE
            /\ UNCHANGED <<tfired, pos>>

\* ValidationHook.run
ValidationHook_run ==
    /\ vstep' = StepIncrement(vstep)
    /\ tstep' = tstep
    /\ UNCHANGED tfired
    /\ IF ValidFires(StepIncrement(vstep), valid_step)
       THEN LET d == ValidationPass IN
            /\ vfired' = vfired \cup {calls["valid"]}
            /\ src' = ValidInitOp.src
            /\ pos' = d.pos
            /\ reads' = d.reads
            /\ loss_val' = d.loss_val
            /\ truth' = d.truth
            /\ pred' = d.truth
            /\ IF d.exc # "none"
               THEN /\ err' = d.exc
                    /\ loss_mean' = loss_mean
                    /\ plotted' = <<>>
                    /\ sinkFailed' = FALSE
               ELSE /\ loss_mean' = Mean(d.loss_val)
                    /\ IF valid_ws
                       THEN \E scalarOk \in BOOLEAN, plotOk \in BOOLEAN :
                            \E fig_idx \in Permutation(FigNum(d.truth)) :
                              IF ValueSummaryLog(scalarOk) # "none"
                              THEN /\ err' = ValueSummaryLog(scalarOk)
                                   /\ plotted' = <<>>
                                   /\ sinkFailed' = TRUE
                              ELSE LET c == CurvePlotLog(d.truth, fig_idx, curve_num, plotOk) IN
                                   /\ err' = c.exc
                                   /\ plotted' = c.plotted
                                   /\ sinkFailed' = (c.exc = "SinkError")
                       ELSE /\ err' = "none"
                            /\ plotted' = <<>>
                            /\ sinkFailed' = FALSE
       ELSE /\ err' = "none"
            /\ sinkFailed' = FALSE
            /\ UNCHANGED <<vfired, passVars, src, pos>>

\* ------------------------------------------------------ the training loop
\* one optimisation step: it draws its batch from the training source
OptimStep ==
    /\ status = "running"
    /\ cur = 0
    /\ n < MaxTrainSteps
    /\ src' = "train"
    /\ cur' = 1
    /\ UNCHANGED <<cfgVars, tstep, vstep, pos, n, status, err, calls,
                   tfired, vfired, passVars, sinkFailed, lastRun>>
    /\ UNCHANGED <<modelVars, evalVars>>

\* the loop's bookkeeping around hook.run(sess, writer): an exception that
\* escapes run ends the loop; otherwise the next hook, or the next step
LoopCall(h) ==
    /\ status = "running"
    /\ cur \in 1..Len(hooks)
    /\ hooks[cur] = h
    /\ calls' = [calls EXCEPT ![h] = @ + 1]
    /\ lastRun' = h
    /\ UNCHANGED cfgVars
    /\ UNCHANGED <<modelVars, evalVars>>

LoopReturn ==
    IF err' # "none"
    THEN status' = "aborted" /\ UNCHANGED <<n, cur>>
    ELSE /\ status' = status
         /\ IF cur = Len(hooks) THEN cur' = 0 /\ n' = n + 1
                                ELSE cur' = cur + 1 /\ n' = n

RunTrainValueHook == LoopCall("train") /\ TrainValueHook_run /\ LoopReturn

RunValidationHook == LoopCall("valid") /\ ValidationHook_run /\ LoopReturn

Finish ==
    /\ status = "running"
    /\ cur = 0
    /\ n = MaxTrainSteps
    /\ status' = "done"
    /\ UNCHANGED <<cfgVars, tstep, vstep, src, pos, n, cur, err, calls,
                   tfired, vfired, passVars, sinkFailed, lastRun>>
    /\ UNCHANGED <<modelVars, evalVars>>


\* ------------------------------------------- construction of the network
ModelFns == {"my_model_fn", "my_model_fn_linear", "my_model_fn_linear_conv1d"}

\* evaluate.py:78-81: the output width main hands to the data reader;
\* fc_filters[-1] of an empty tuple raises IndexError
OutputSize(fc, dims) ==
    IF Len(dims) = 0
    THEN IF Len(fc) = 0 THEN [exc |-> "IndexError", size |-> 0]
                        ELSE [exc |-> "none", size |-> Last(fc)]
    ELSE [exc |-> "none", size |-> Last(dims)]

\* zip(tconv_dims, tconv_filters): pairs up to the shorter of the two
Zip(dims, filters) ==
    [i \in 1..(IF Len(dims) < Len(filters) THEN Len(dims) ELSE Len(filters))
        |-> <<dims[i], filters[i]>>]

\* utils.py:131  assert up_size%feature_dim == 0
StageAssert(up_size, fdim) == up_size % fdim = 0

\* utils.py:132  stride = up_size // feature_dim
StageStride(up_size, fdim) == up_size \div fdim

\* a slip of the loop: feature_dim left at the dense width
FeatureDimKept(up_size, fdim) == fdim

\* utils.py:133  feature_dim = up_size
NextFeatureDim(up_size, fdim) == up_size

\* conv1d_transpose(value, filter, output_shape, stride) on shapes: value is
\* <<width, channels>>, filter is [3, up_filter, last_filter], output_shape is
\* [batch_size, up_size, up_filter]; the result has the shape output_shape names
Conv1dTranspose(value, up_filter, lfilter, up_size) ==
    IF value[2] # lfilter
    THEN [exc |-> "ValueError", shape |-> value]   \* input channels do not match
    ELSE [exc |-> "none", shape |-> <<up_size, up_filter>>]

\* utils.py:194  tf.layers.conv1d(up, up_filter, 3, padding='same'): the width
\* is kept, the channels become the number of filters
Conv1dSame(value, nfilters) == <<value[1], nfilters>>

\* main computes output_size before the network is made
MainOutputSize ==
    /\ mpc = "main"
    /\ LET o == OutputSize(fc_filters, tconv_dims) IN
       /\ output_size' = o.size
       /\ mexc' = o.exc
       /\ mpc' = IF o.exc = "none" THEN "fc" ELSE "failed"
    /\ UNCHANGED <<model_fn, fc_filters, tconv_dims, tconv_filters,
                   cnt, feature_dim, last_filter, up, strides>>
    /\ UNCHANGED <<hookVars, evalVars>>

\* utils.py:122-129: the dense layers, expand_dims, feature_dim, last_filter
ModelDense ==
    /\ mpc = "fc"
    /\ IF Len(fc_filters) = 0
       THEN /\ mexc' = "IndexError"          \* fc_filters[-1]
            /\ mpc' = "failed"
            /\ UNCHANGED <<feature_dim, last_filter, up, cnt>>
       ELSE /\ up' = <<Last(fc_filters), 1>>
            /\ feature_dim' = Last(fc_filters)
            /\ last_filter' = 1
            /\ cnt' = 0
            /\ mpc' = "loop"
            /\ mexc' = "none"
    /\ UNCHANGED <<model_fn, fc_filters, tconv_dims, tconv_filters, output_size, strides>>
    /\ UNCHANGED <<hookVars, evalVars>>

\* utils.py:130-136 (159-165, 188-196): one iteration of the upsampling loop
ModelStage ==
    /\ mpc = "loop"
    /\ cnt < Len(Zip(tconv_dims, tconv_filters))
    /\ LET up_size == Zip(tconv_dims, tconv_filters)[cnt + 1][1]
           up_filter == Zip(tconv_dims, tconv_filters)[cnt + 1][2]
           t == Conv1dTranspose(up, up_filter, last_filter, up_size)
       IN IF ~StageAssert(up_size, feature_dim)
          THEN /\ mexc' = "AssertionError"
               /\ mpc' = "failed"
               /\ UNCHANGED <<cnt, feature_dim, last_filter, up, strides>>
          ELSE IF t.exc # "none"
          THEN /\ mexc' = t.exc
               /\ mpc' = "failed"
               /\ feature_dim' = NextFeatureDim(up_size, feature_dim)
               /\ UNCHANGED <<cnt, last_filter, up, strides>>
          ELSE /\ strides' = Append(strides, StageStride(up_size, feature_dim))
               /\ feature_dim' = NextFeatureDim(up_size, feature_dim)
               /\ up' = IF model_fn = "my_model_fn_linear_conv1d"
                         THEN Conv1dSame(t.shape, up_filter)
                         ELSE t.shape
               /\ last_filter' = up_filter
               /\ cnt' = cnt + 1
               /\ UNCHANGED <<mpc, mexc>>
    /\ UNCHANGED <<model_fn, fc_filters, tconv_dims, tconv_filters, output_size>>
    /\ UNCHANGED <<hookVars, evalVars>>

\* utils.py:138-140: conv_final collapses the channels to 1, squeeze drops them
ModelFinal ==
    /\ mpc = "loop"
    /\ cnt = Len(Zip(tconv_dims, tconv_filters))
    /\ up' = <<up[1], 1>>
    /\ mpc' = "done"
    /\ UNCHANGED <<model_fn, fc_filters, tconv_dims, tconv_filters, output_size,
                   cnt, feature_dim, last_filter, strides, mexc>>
    /\ UNCHANGED <<hookVars, evalVars>>

\* ------------------------------------------------------ compare_truth_pred
\* a file of R rows of W numbers each
Files(S) ==
    UNION {[1..r -> [1..w -> S]] : r \in 0..MaxFileRows, w \in 1..MaxFileCols}

\* np.loadtxt(file, delimiter=' '): the R x W table with every axis of
\* length 1 squeezed away (ndmin=0); an empty file gives an empty 1-D array
LoadTxt(file) ==
    LET R == Len(file)
        W == IF R = 0 THEN 0 ELSE Len(file[1])
    IN IF R = 0 THEN [shape |-> <<0>>, rows |-> <<>>]
       ELSE [shape |-> SelectSeq(<<R, W>>, LAMBDA d : d # 1), rows |-> file]

\* the square of a number
Square(x) == x * x

\* pred - truth, entry by entry (the two arrays have one shape)
ArraySub(p, t) ==
    [shape |-> p.shape,
     rows |-> [r \in 1..Len(p.rows) |->
                 [c \in 1..Len(p.rows[r]) |-> p.rows[r][c] - t.rows[r][c]]]]

\* np.abs(a)
NpAbs(a) ==
    [shape |-> a.shape,
     rows |-> [r \in 1..Len(a.rows) |-> [c \in 1..Len(a.rows[r]) |-> Abs(a.rows[r][c])]]]

\* np.square(a)
NpSquare(a) ==
    [shape |-> a.shape,
     rows |-> [r \in 1..Len(a.rows) |-> [c \in 1..Len(a.rows[r]) |-> Square(a.rows[r][c])]]]

\* np.mean(a, axis=1): one mean per row of a 2-D array; an array of fewer
\* dimensions has no axis 1
MeanAxis1(a) ==
    IF Len(a.shape) < 2
    THEN [exc |-> "AxisError", val |-> <<>>]
    ELSE [exc |-> "none", val |-> [r \in 1..Len(a.rows) |-> Mean(a.rows[r])]]

\* evaluate.py:64-65
EvalLoad ==
    /\ epc = "load"
    /\ pred_arr' = LoadTxt(pred_file)
    /\ truth_arr' = LoadTxt(truth_file)
    /\ epc' = "loaded"
    /\ UNCHANGED <<truth_file, pred_file, mae, mse, eexc>>
    /\ UNCHANGED <<hookVars, modelVars>>

\* evaluate.py:67-70
EvalCompare ==
    /\ epc = "loaded"
    /\ LET a == MeanAxis1(NpAbs(ArraySub(pred_arr, truth_arr)))
           s == MeanAxis1(NpSquare(ArraySub(pred_arr, truth_arr)))
       IN /\ mae' = a.val
          /\ mse' = s.val
          /\ eexc' = IF a.exc # "none" THEN a.exc ELSE s.exc
          /\ epc' = IF a.exc # "none" \/ s.exc # "none" THEN "raised" ELSE "returned"
    /\ UNCHANGED <<truth_file, pred_file, truth_arr, pred_arr>>
    /\ UNCHANGED <<hookVars, modelVars>>

\* ------------------------------------------------------- specifications
HookInit ==
    /\ verb_step \in 1..MaxPeriod
    /\ valid_step \in 1..MaxPeriod
    /\ train_ws \in BOOLEAN
    /\ valid_ws \in BOOLEAN
    /\ curve_num \in 1..MaxCurveNum
    /\ stream \in Streams
    /\ hooks \in {<<"train", "valid">>, <<"valid", "train">>}

HookStart ==
    /\ tstep = InitialStep
    /\ vstep = InitialStep
    /\ src = "train"
    /\ pos = 0
    /\ n = 0
    /\ cur = 0
    /\ status = "running"
    /\ err = "none"
    /\ calls = [h \in {"train", "valid"} |-> 0]
    /\ tfired = {}
    /\ vfired = {}
    /\ reads = <<>>
    /\ loss_val = <<>>
    /\ loss_mean = <<"nan">>
    /\ truth = 0
    /\ pred = 0
    /\ plotted = <<>>
    /\ sinkFailed = FALSE
    /\ lastRun = "none"

HookIdle ==
    /\ verb_step = 1
    /\ valid_step = 1
    /\ train_ws = FALSE
    /\ valid_ws = FALSE
    /\ curve_num = 1
    /\ stream = <<>>
    /\ hooks = <<>>
    /\ HookStart

ModelStart ==
    /\ mpc = "main"
    /\ output_size = 0
    /\ cnt = 0
    /\ feature_dim = 0
    /\ last_filter = 0
    /\ up = <<0, 0>>
    /\ strides = <<>>
    /\ mexc = "none"

ModelInit ==
    /\ model_fn \in ModelFns
    /\ fc_filters \in SeqsUpTo(FcWidths, MaxFc)
    /\ tconv_dims \in SeqsUpTo(TconvDims, MaxStages)
    /\ tconv_filters \in SeqsUpTo(TconvFilters, MaxStages)
    /\ ModelStart

ModelIdle ==
    /\ model_fn = "my_model_fn"
    /\ fc_filters = <<>>
    /\ tconv_dims = <<>>
    /\ tconv_filters = <<>>
    /\ ModelStart

EvalStart ==
    /\ epc = "load"
    /\ truth_arr = [shape |-> <<>>, rows |-> <<>>]
    /\ pred_arr = [shape |-> <<>>, rows |-> <<>>]
    /\ mae = <<>>
    /\ mse = <<>>
    /\ eexc = "none"

EvalInit ==
    /\ truth_file \in Files(FileValues)
    /\ \E d \in Diffs :
         pred_file = [r \in 1..Len(truth_file) |->
                        [c \in 1..Len(truth_file[r]) |-> truth_file[r][c] + d]]
    /\ EvalStart

EvalIdle ==
    /\ truth_file = <<>>
    /\ pred_file = <<>>
    /\ EvalStart

Init == HookInit /\ HookStart /\ ModelIdle /\ EvalIdle

Next == OptimStep \/ RunTrainValueHook \/ RunValidationHook \/ Finish

Spec == Init /\ [][Next]_vars

InitModel == HookIdle /\ ModelInit /\ EvalIdle

NextModel == MainOutputSize \/ ModelDense \/ ModelStage \/ ModelFinal

SpecModel == InitModel /\ [][NextModel]_vars

InitEval == HookIdle /\ ModelIdle /\ EvalInit

NextEval == EvalLoad \/ EvalCompare

SpecEval == InitEval /\ [][NextEval]_vars

\* ------------------------------------------------------------- properties
\* C1: the k-th run invocation (k from 0) of a fresh TrainValueHook executes
\* the hook's action if and only if k % verb_step = 0; so it does on the very
\* first invocation
C1_TrainFiresOnMultiples ==
    /\ tfired \subseteq 0..(calls["train"] - 1)
    /\ \A k \in 0..(calls["train"] - 1) : (k \in tfired) <=> (k % verb_step = 0)
    /\ (calls["train"] > 0 => 0 \in tfired)

\* C1 witness: verb_step = 5, eleven invocations, the action ran on ticks 0, 5
\* and 10 only
C1_Witness == verb_step = 5 /\ calls["train"] = 11 /\ tfired = {0, 5, 10}

\* C2: the k-th run invocation (k from 0) of a fresh ValidationHook makes a
\* validation pass if and only if k % valid_step = 0 and k # 0; never on tick 0
C2_ValidFiresOnNonZeroMultiples ==
    /\ vfired \subseteq 0..(calls["valid"] - 1)
    /\ \A k \in 0..(calls["valid"] - 1) :
          (k \in vfired) <=> (k % valid_step = 0 /\ k # 0)
    /\ 0 \notin vfired

\* C2 witness: valid_step = 5, eleven invocations, passes on ticks 5 and 10 only
C2_Witness == valid_step = 5 /\ calls["valid"] = 11 /\ vfired = {5, 10}

\* C3: a hook's step counter starts at -1, is one more after every run
\* invocation, fired or not, raised or not, and never goes down; after n
\* completed steps of the loop every hook's counter is n - 1
C3_StepCounter ==
    /\ tstep = -1 /\ vstep = -1
    /\ [](/\ tstep = calls["train"] - 1
          /\ vstep = calls["valid"] - 1
          /\ (cur = 0 => tstep = n - 1 /\ vstep = n - 1 /\ tstep = vstep))
    /\ [][tstep' >= tstep /\ vstep' >= vstep]_vars

\* C3 witness: the third invocation of the train hook raised out of its
\* action, after two completed steps
C3_Witness ==
    /\ status = "aborted"
    /\ lastRun = "train"
    /\ sinkFailed
    /\ n = 2
    /\ tstep = 2
    /\ vfired # {}

C5_SinkFailureNotFatal ==
    sinkFailed => (err = "none" /\ status # "aborted")

\* C6: with fc_filters non-empty and the two upsampling lists of equal length,
\* stage i is built with stride_i = tconv_dims[i] / feature_dim_i, where
\* feature_dim_1 = fc_filters[-1] and feature_dim_i = tconv_dims[i-1];
\* construction fails at the first stage that is no multiple and builds
\* nothing after it, and otherwise builds every stage
FeatureDimBefore(i) == IF i = 1 THEN Last(fc_filters) ELSE tconv_dims[i - 1]

C6_StridesExact ==
    (Len(fc_filters) > 0 /\ Len(tconv_dims) = Len(tconv_filters)) =>
       /\ Len(strides) <= Len(tconv_dims)
       /\ \A i \in 1..Len(strides) :
             /\ FeatureDimBefore(i) * strides[i] = tconv_dims[i]
             /\ tconv_dims[i] % FeatureDimBefore(i) = 0
       /\ (mpc = "failed" =>
             /\ mexc = "AssertionError"
             /\ Len(strides) < Len(tconv_dims)
             /\ tconv_dims[Len(strides) + 1] % FeatureDimBefore(Len(strides) + 1) # 0)
       /\ (mpc = "done" => Len(strides) = Len(tconv_dims))
       /\ (mpc = "loop" => cnt = Len(strides))

\* C6 witness: fc_filters ending in 2, tconv_dims = (4, 8): two stages of
\* stride 2 each
C6_Witness ==
    /\ mpc = "done"
    /\ Last(fc_filters) = 2
    /\ tconv_dims = <<4, 8>>
    /\ Len(tconv_filters) = 2
    /\ strides = <<2, 2>>

\* C7: no network is built when tconv_filters and tconv_dims differ in length
C7_LengthMismatchFails ==
    Len(tconv_dims) # Len(tconv_filters) => mpc # "done"

\* C8: the built network's output width is tconv_dims[-1], or fc_filters[-1]
\* when tconv_dims is empty (and then no stage is built), and it is the
\* output_size main computed
C8_OutputWidth ==
    mpc = "done" =>
       /\ up[1] = (IF Len(tconv_dims) = 0 THEN Last(fc_filters) ELSE Last(tconv_dims))
       /\ up[1] = output_size
       /\ (Len(tconv_dims) = 0 => strides = <<>>)

\* C9: for two files of equal shape, with at least one row, that differ by c
\* in every entry, compare_truth_pred returns one mae and one mse per row,
\* every mae being c (as a magnitude) and every mse being c^2
RatEq(m, c) == Len(m) = 2 /\ m[1] = c * m[2]

C9_PerRowErrors ==
    (epc \in {"returned", "raised"} /\ Len(truth_file) >= 1) =>
       LET c == Abs(pred_file[1][1] - truth_file[1][1]) IN
       /\ epc = "returned"
       /\ Len(mae) = Len(truth_file)
       /\ Len(mse) = Len(truth_file)
       /\ \A r \in 1..Len(truth_file) : RatEq(mae[r], c) /\ RatEq(mse[r], c * c)

\* C10: whenever ValidationHook fires with summary writing on (and the sink
\* accepts its events), the curve-plot event is drawn from exactly curve_num
\* pairwise distinct rows of the retained final batch
C10_CurvePlotRows ==
    (/\ lastRun = "valid"
     /\ (calls["valid"] - 1) \in vfired
     /\ valid_ws
     /\ ~sinkFailed) =>
       /\ err = "none"
       /\ Len(plotted) = curve_num
       /\ \A i, j \in 1..Len(plotted) : plotted[i] = plotted[j] => i = j
       /\ \A i \in 1..Len(plotted) : plotted[i] \in 1..FigNum(truth)

\* C11: a ValidationHook run that fires returns with the iterator on the
\* validation source, exhausted; a TrainValueHook run that fires afterwards in
\* the same tick reads from that exhausted iterator and OutOfRangeError leaves
\* its run; registered before the ValidationHook, its read comes before the
\* rewind and succeeds
ValidRunFired == calls'["valid"] = calls["valid"] + 1 /\ calls["valid"] \in vfired'

TrainRunFired == calls'["train"] = calls["train"] + 1 /\ calls["train"] \in tfired'

C11_ValidationLeavesStreamExhausted ==
    [][/\ (ValidRunFired => src' = "valid" /\ pos' = Len(stream))
       /\ (TrainRunFired /\ hooks = <<"valid", "train">>
             /\ ValidFires(calls["train"], valid_step) =>
               /\ src = "valid" /\ pos = Len(stream)
               /\ err' = "OutOfRangeError"
               /\ status' = "aborted")
       /\ (TrainRunFired /\ hooks = <<"train", "valid">> =>
               /\ src = "train"
               /\ err' # "OutOfRangeError")]_vars

\* C11 witness: registered after the ValidationHook, the train hook fired on a
\* tick on which a pass over a non-empty stream had just been made, and the
\* exhaustion signal ended training
C11_Witness ==
    /\ hooks = <<"valid", "train">>
    /\ lastRun = "train"
    /\ (calls["train"] - 1) \in tfired
    /\ (calls["train"] - 1) \in vfired
    /\ Len(stream) = 2
    /\ src = "valid"
    /\ pos = 2
    /\ err = "OutOfRangeError"
    /\ status = "aborted"

====
